---------------------------- MODULE Spec2Model ----------------------------
(***************************************************************************)
(* ACF Guidance Harvester v2: the content-validation gate (validate.py)    *)
(* and the source chain orchestrator with its batch loop (harvest_v2.py).  *)
(*                                                                         *)
(* A file is a declared extension, a leading token (what the first bytes   *)
(* of the file are) and a body: a sequence of tokens.  A token is a chunk  *)
(* of bytes: filler text of a fixed length, a phrase, a tag or an entity.  *)
(***************************************************************************)
EXTENDS Integers, Sequences, FiniteSets, TLC

\* ------------------------------------------------------------------ bounds

\* longest body of a file, in tokens
MaxTokens == 3

\* --------------------------------------------------------- program constants

MIN_FILE_SIZE == 200
MIN_TEXT_CHARS == 500
GENERIC_SHORT_CHARS == 2000
UNKNOWN_BINARY_FLOOR == 5000
HEADER_BYTES == 16
SAMPLE_CHARS == 2000

\* ------------------------------------------------------------------- files

\* a path at which no file exists
NoFile == [ext |-> "", head |-> "", body |-> <<>>]

Exts == {".pdf", ".html", ".docx"}

SigHeads == {"%PDF", "PK34", "D0CF11", "x89PNG", "FFD8FF", "GIF8", "{\\"}
MarkupHeads == {"<!doctype html>", "<html>", "<?xml?>"}
\* leading bytes of no known format that are no text either: four control
\* bytes, which decode as four characters
BinaryHeads == {"x00x01x02x03"}
Heads == SigHeads \cup MarkupHeads \cup BinaryHeads \cup {""}

FillerTokens == {"x1", "x199", "x499", "x1986"}
PhraseTokens == {"Access Denied", "justice.gov", "web.archive.org/web/",
                 "404 Not Found", "Skip to content"}
TagTokens == {"<script>", "</script>", "<body>"}
EntityTokens == {"&nbsp;"}
Tokens == FillerTokens \cup PhraseTokens \cup TagTokens \cup EntityTokens

Bodies == UNION {[1..n -> Tokens] : n \in 0..MaxTokens}

Files == [ext : Exts, head : Heads, body : Bodies]

\* the bytes of a token
TokBytes(t) ==
    CASE t = "x1" -> 1
      [] t = "x199" -> 199
      [] t = "x499" -> 499
      [] t = "x1986" -> 1986
      [] t = "Access Denied" -> 13
      [] t = "justice.gov" -> 11
      [] t = "web.archive.org/web/" -> 20
      [] t = "404 Not Found" -> 13
      [] t = "Skip to content" -> 15
      [] t = "<script>" -> 8
      [] t = "</script>" -> 9
      [] t = "<body>" -> 6
      [] t = "&nbsp;" -> 6
      [] t = "<!doctype html>" -> 15
      [] t = "<html>" -> 6
      [] t = "<?xml?>" -> 7
      [] t = "%PDF" -> 4
      [] t = "PK34" -> 4
      [] t = "D0CF11" -> 3
      [] t = "x89PNG" -> 4
      [] t = "FFD8FF" -> 3
      [] t = "GIF8" -> 4
      [] t = "{\\" -> 2
      [] t = "x00x01x02x03" -> 4
      [] OTHER -> 0

\* str.lower() of a token
Lower(t) ==
    CASE t = "Access Denied" -> "access denied"
      [] t = "404 Not Found" -> "404 not found"
      [] t = "Skip to content" -> "skip to content"
      [] OTHER -> t

\* the tokens of a file, leading bytes first
Content(f) == IF f.head = "" THEN f.body ELSE <<f.head>> \o f.body

RECURSIVE SumBytes(_)
SumBytes(s) == IF s = <<>> THEN 0 ELSE TokBytes(Head(s)) + SumBytes(Tail(s))

\* os.path.getsize
FileSize(f) == SumBytes(Content(f))

\* --------------------------------------------------------------- indicators

DOJ_INDICATORS ==
    {"access denied", "you don't have permission to access", "403 forbidden",
     "department of justice", "justice.gov", "you are not authorized",
     "access to this page is restricted"}

WAYBACK_ERROR_INDICATORS ==
    {"the wayback machine has not archived",
     "this url has been excluded from the wayback machine",
     "hrly captures", "web.archive.org/web/",
     "sorry. this url has been excluded",
     "this snapshot cannot be displayed",
     "wayback machine doesn't have that page archived",
     "got an http 302 response"}

GENERIC_ERROR_INDICATORS ==
    {"page not found", "404 not found", "404 error",
     "the page you are looking for", "this page has been removed",
     "this page is no longer available", "the requested url was not found",
     "we're sorry, but the page you requested",
     "content no longer available", "has been archived or removed",
     "server error", "500 internal server error", "502 bad gateway",
     "503 service unavailable"}

\* the phrases the two SHELL_ONLY_PATTERNS match, case ignored
SHELL_ONLY_PATTERNS ==
    {"skip to content", "skip to main content", "skip navigation"}

\* -------------------------------------------------------- type detection

FILE_SIGNATURES(h) ==
    CASE h = "%PDF" -> "pdf"
      [] h = "PK34" -> "zip_based"
      [] h = "D0CF11" -> "ole"
      [] h = "x89PNG" -> "png"
      [] h = "FFD8FF" -> "jpg"
      [] h = "GIF8" -> "gif"
      [] h = "{\\" -> "rtf"
      [] OTHER -> "none"

\* the tokens that lie wholly in the first n bytes
RECURSIVE Prefix(_, _)
Prefix(s, n) ==
    IF s = <<>> \/ TokBytes(Head(s)) > n THEN <<>>
    ELSE <<Head(s)>> \o Prefix(Tail(s), n - TokBytes(Head(s)))

Range(s) == {s[i] : i \in DOMAIN s}

\* "<html" in sample or "<body" in sample: the five characters of the marker
\* must lie in the n characters read
RECURSIVE SampleHasMarkup(_, _)
SampleHasMarkup(s, n) ==
    IF s = <<>> THEN FALSE
    ELSE IF Head(s) \in {"<html>", "<body>"} /\ n >= 5 THEN TRUE
    ELSE IF TokBytes(Head(s)) >= n THEN FALSE
    ELSE SampleHasMarkup(Tail(s), n - TokBytes(Head(s)))

detect_file_type(f) ==
    IF f = NoFile THEN "unknown"
    ELSE LET header == Prefix(Content(f), HEADER_BYTES)
             first == IF header = <<>> THEN "" ELSE Head(header)
         IN IF FILE_SIGNATURES(first) # "none" THEN FILE_SIGNATURES(first)
            ELSE IF first \in MarkupHeads THEN "html"
            ELSE IF SampleHasMarkup(Content(f), SAMPLE_CHARS) THEN "html"
            ELSE "text"

\* ------------------------------------------------------------ visible text

BlockTags == <<"script", "style", "noscript", "nav", "header", "footer">>

OpenTok(tag) == "<" \o tag \o ">"
CloseTok(tag) == "</" \o tag \o ">"

RECURSIVE DropThrough(_, _)
DropThrough(s, t) ==
    IF s = <<>> THEN <<>>
    ELSE IF Head(s) = t THEN Tail(s)
    ELSE DropThrough(Tail(s), t)

\* re.sub(<tag[^>]*>.*?</tag>, "", text): each opening tag that a closing
\* tag follows is cut out with everything up to the nearest closing tag
RECURSIVE RemoveBlocks(_, _)
RemoveBlocks(s, tag) ==
    IF s = <<>> THEN <<>>
    ELSE IF Head(s) = OpenTok(tag) /\ CloseTok(tag) \in Range(Tail(s))
         THEN RemoveBlocks(DropThrough(Tail(s), CloseTok(tag)), tag)
    ELSE <<Head(s)>> \o RemoveBlocks(Tail(s), tag)

RECURSIVE RemoveAllBlocks(_, _)
RemoveAllBlocks(s, tags) ==
    IF tags = <<>> THEN s
    ELSE RemoveAllBlocks(RemoveBlocks(s, Head(tags)), Tail(tags))

\* a remaining tag becomes a space, and so does &nbsp;
IsSpace(t) == t \in TagTokens \cup MarkupHeads \cup EntityTokens

\* the length after whitespace is collapsed and the ends are stripped: a
\* run of spaces counts one character, and only between two texts
RECURSIVE CollapsedLen(_, _, _)
CollapsedLen(s, seenText, pending) ==
    IF s = <<>> THEN 0
    ELSE IF IsSpace(Head(s)) THEN CollapsedLen(Tail(s), seenText, seenText)
    ELSE TokBytes(Head(s)) + (IF pending THEN 1 ELSE 0)
           + CollapsedLen(Tail(s), TRUE, FALSE)

\* len(extract_visible_text(content))
extract_visible_text(content) ==
    CollapsedLen(RemoveAllBlocks(content, BlockTags), FALSE, FALSE)

\* mutant: the content is not lowered before the search
check_for_junk_indicators_CaseSensitive(content, indicators) ==
    {content[i] : i \in DOMAIN content} \cap indicators

\* the indicators found in the lowered raw content
check_for_junk_indicators(content, indicators) ==
    {Lower(content[i]) : i \in DOMAIN content} \cap indicators

\* mutant: the shell markers are not looked for
is_empty_shell_NoMarker(content, min_chars) ==
    IF extract_visible_text(content) < min_chars
    THEN [is_shell |-> TRUE, reason |-> "insufficient_content"]
    ELSE [is_shell |-> FALSE, reason |-> "ok"]

is_empty_shell(content, min_chars) ==
    LET visible == extract_visible_text(content)
    IN IF check_for_junk_indicators(content, SHELL_ONLY_PATTERNS) # {}
          /\ visible < min_chars
       THEN [is_shell |-> TRUE, reason |-> "shell_page_no_content"]
       ELSE IF visible < min_chars
       THEN [is_shell |-> TRUE, reason |-> "insufficient_content"]
       ELSE [is_shell |-> FALSE, reason |-> "ok"]

\* --------------------------------------------------------------- validation

ValidationResult(valid, reason) == [valid |-> valid, reason |-> reason]

\* mutant: every extension but .html counts as a document format, and
\* text counts as markup
ValidateText_AnyDocument(f, actual_type) ==
    LET content == Content(f)
        shell == is_empty_shell(content, MIN_TEXT_CHARS)
    IN IF f.ext # ".html" /\ actual_type \in {"html", "text"}
       THEN ValidationResult(FALSE, "html_masquerade")
       ELSE IF check_for_junk_indicators(content, DOJ_INDICATORS) # {}
       THEN ValidationResult(FALSE, "doj_access_denied")
       ELSE IF check_for_junk_indicators(content, WAYBACK_ERROR_INDICATORS) # {}
       THEN ValidationResult(FALSE, "wayback_error")
       ELSE IF check_for_junk_indicators(content, GENERIC_ERROR_INDICATORS) # {}
               /\ extract_visible_text(content) < GENERIC_SHORT_CHARS
       THEN ValidationResult(FALSE, "generic_error_page")
       ELSE IF shell.is_shell
       THEN ValidationResult(FALSE, shell.reason)
       ELSE ValidationResult(TRUE, "ok")

\* mutant: an error phrase rejects the page however long it is
ValidateText_GenericAlways(f, actual_type) ==
    LET content == Content(f)
        shell == is_empty_shell(content, MIN_TEXT_CHARS)
    IN IF f.ext = ".pdf" /\ actual_type = "html"
       THEN ValidationResult(FALSE, "html_masquerade")
       ELSE IF check_for_junk_indicators(content, DOJ_INDICATORS) # {}
       THEN ValidationResult(FALSE, "doj_access_denied")
       ELSE IF check_for_junk_indicators(content, WAYBACK_ERROR_INDICATORS) # {}
       THEN ValidationResult(FALSE, "wayback_error")
       ELSE IF check_for_junk_indicators(content, GENERIC_ERROR_INDICATORS) # {}
       THEN ValidationResult(FALSE, "generic_error_page")
       ELSE IF shell.is_shell
       THEN ValidationResult(FALSE, shell.reason)
       ELSE ValidationResult(TRUE, "ok")

\* the checks of validate_content on markup or text
ValidateText(f, actual_type) ==
    LET content == Content(f)
        shell == is_empty_shell(content, MIN_TEXT_CHARS)
    IN IF f.ext = ".pdf" /\ actual_type = "html"
       THEN ValidationResult(FALSE, "html_masquerade")
       ELSE IF check_for_junk_indicators(content, DOJ_INDICATORS) # {}
       THEN ValidationResult(FALSE, "doj_access_denied")
       ELSE IF check_for_junk_indicators(content, WAYBACK_ERROR_INDICATORS) # {}
       THEN ValidationResult(FALSE, "wayback_error")
       ELSE IF check_for_junk_indicators(content, GENERIC_ERROR_INDICATORS) # {}
               /\ extract_visible_text(content) < GENERIC_SHORT_CHARS
       THEN ValidationResult(FALSE, "generic_error_page")
       ELSE IF shell.is_shell
       THEN ValidationResult(FALSE, shell.reason)
       ELSE ValidationResult(TRUE, "ok")

\* mutant: the size floor is applied to markup and text only
IsTooSmall_TextOnly(f) ==
    FileSize(f) < MIN_FILE_SIZE /\ detect_file_type(f) \in {"html", "text"}

\* file_size < 200
IsTooSmall(f) == FileSize(f) < MIN_FILE_SIZE

\* mutant: images are not taken for valid
IsImage_Never(actual_type) == FALSE

\* actual_type in ("png", "jpg", "gif")
IsImage(actual_type) == actual_type \in {"png", "jpg", "gif"}

validate_content(f) ==
    IF f = NoFile THEN ValidationResult(FALSE, "file_not_found")
    ELSE IF FileSize(f) = 0 THEN ValidationResult(FALSE, "file_empty")
    ELSE IF IsTooSmall(f)
    THEN ValidationResult(FALSE, "file_too_small")
    ELSE LET actual_type == detect_file_type(f)
         IN IF actual_type \in {"pdf", "zip_based", "ole", "rtf"}
            THEN ValidationResult(TRUE, "ok")
            ELSE IF IsImage(actual_type)
            THEN ValidationResult(TRUE, "ok")
            ELSE IF actual_type \notin {"html", "text"}
            THEN IF FileSize(f) > UNKNOWN_BINARY_FLOOR
                 THEN ValidationResult(TRUE, "ok")
                 ELSE ValidationResult(FALSE, "file_too_small")
            ELSE ValidateText(f, actual_type)


\* ------------------------------------------------------- the harvest: bounds

\* rows of the inventory
NRows == 2

\* validate_content calls in a row
MaxValidations == 3

\* most candidate URLs of a row
MaxUrls == 2
\* most document links on a scraped page
MaxLinks == 2
\* highest _<counter> suffix a file name in a row directory gets
MaxCounter == 1
\* batch runs
MaxRuns == 2
\* most candidate URLs of a row of a batch
MaxBatchUrls == 1

\* urls[:3]
WAYBACK_URL_LIMIT == 3

\* most candidate URLs of a row whose archive step is run on its own
MaxWaybackUrls == 4

\* ------------------------------------------------------- the web's answers

GoodPdf == [ext |-> ".pdf", head |-> "%PDF", body |-> <<"x1986">>]
TinyPdf == [ext |-> ".pdf", head |-> "%PDF", body |-> <<"x1">>]
DownloadFiles == {GoodPdf, TinyPdf}

GoodPage == [ext |-> ".html", head |-> "<html>", body |-> <<"x499", "x1">>]
DeniedPage ==
    [ext |-> ".html", head |-> "<html>", body |-> <<"Access Denied", "x499">>]
ShellPage ==
    [ext |-> ".html", head |-> "<html>", body |-> <<"Skip to content", "x199">>]
Pages == {GoodPage, DeniedPage}
WaybackPages == {GoodPage, DeniedPage, ShellPage}

\* what the GET of one document link of a page gives: a RequestException
\* (ok = FALSE) or a body
LinkResults ==
    {[ok |-> FALSE, file |-> NoFile]}
        \cup {[ok |-> TRUE, file |-> g] : g \in DownloadFiles}

LinkSeqs == UNION {[1..n -> LinkResults] : n \in 0..MaxLinks}

\* what session.get gives: kind is the branch the code takes on it
\*   error        a RequestException (connection, timeout, raise_for_status)
\*   non200       a status other than 200 (the archive request only)
\*   doj_redirect a final URL on justice.gov (the archive request only)
\*   binary       a document content type, with the body
\*   html         an html or text content type, with the page and the
\*                outcomes of its document links, in page order; bs4 is
\*                whether BeautifulSoup can be imported (without it the
\*                links are not looked at)
\*   other        any other content type
SimpleResponse(kind) ==
    [kind |-> kind, file |-> NoFile, links |-> <<>>, bs4 |-> TRUE]

Responses ==
    {SimpleResponse("error"), SimpleResponse("other")}
        \cup {[kind |-> "binary", file |-> g, links |-> <<>>, bs4 |-> TRUE] :
                g \in DownloadFiles}
        \cup {[kind |-> "html", file |-> p, links |-> ls, bs4 |-> TRUE] :
                p \in Pages, ls \in LinkSeqs}
        \cup {[kind |-> "html", file |-> p, links |-> <<>>, bs4 |-> FALSE] :
                p \in Pages}

WaybackResponses ==
    {SimpleResponse("error"), SimpleResponse("non200"),
     SimpleResponse("doj_redirect"), SimpleResponse("other")}
        \cup {[kind |-> "binary", file |-> g, links |-> <<>>, bs4 |-> TRUE] :
                g \in DownloadFiles}
        \cup {[kind |-> "html", file |-> p, links |-> <<>>, bs4 |-> TRUE] :
                p \in WaybackPages}

\* --------------------------------------------------------------- file names

FileName(stem, n, ext) == [stem |-> stem, n |-> n, ext |-> ext]
PageContentHtml == FileName("page_content", 0, ".html")
WaybackPageHtml == FileName("wayback_page", 0, ".html")

\* guess_filename: the name the response and the URL suggest
guess_filename(f) == FileName("document", 0, f.ext)

\* while os.path.exists(fpath): fpath = f"{base}_{counter}{ext}"
AvoidOverwrite(dir, name) ==
    LET free == {n \in 0..(MaxCounter + MaxLinks + 1) :
                    FileName(name.stem, n, name.ext) \notin dir}
    IN FileName(name.stem,
                CHOOSE n \in free : \A m \in free : n <= m,
                name.ext)

\* a file dict of files_downloaded
FileEntry(name, source, vr, needs_conversion, validation_failed) ==
    [filename |-> name, source |-> source, reason |-> vr.reason,
     needs_conversion |-> needs_conversion,
     validation_failed |-> validation_failed]

Fetched(files, dir) == [files |-> files, dir |-> dir]

\* ----------------------------------------------------------------- fetchers

\* mutant: an accepted page is not marked for conversion
save_html_page_NoConversion(page, source, dir) ==
    Fetched(<<FileEntry(PageContentHtml, source, validate_content(page),
                        FALSE, ~validate_content(page).valid)>>,
            dir \cup {PageContentHtml})

save_html_page(page, source, dir) ==
    LET vr == validate_content(page)
    IN IF vr.valid
       THEN Fetched(<<FileEntry(PageContentHtml, source, vr, TRUE, FALSE)>>,
                    dir \cup {PageContentHtml})
       ELSE Fetched(<<FileEntry(PageContentHtml, source, vr, FALSE, TRUE)>>,
                    dir \cup {PageContentHtml})

\* mutant: a rejected link file is kept and listed as validation_failed
RECURSIVE ScrapeLinks_KeepRejected(_, _, _, _)
ScrapeLinks_KeepRejected(links, source, dir, downloaded) ==
    IF links = <<>> THEN Fetched(downloaded, dir)
    ELSE LET l == Head(links)
             name == AvoidOverwrite(dir, guess_filename(l.file))
             vr == validate_content(l.file)
         IN IF ~l.ok
            THEN ScrapeLinks_KeepRejected(Tail(links), source, dir, downloaded)
            ELSE ScrapeLinks_KeepRejected(Tail(links), source,
                     dir \cup {name},
                     Append(downloaded,
                            FileEntry(name, source, vr, FALSE, ~vr.valid)))

\* the loop of scrape_page_for_files over the page's document links
RECURSIVE ScrapeLinks(_, _, _, _)
ScrapeLinks(links, source, dir, downloaded) ==
    IF links = <<>> THEN Fetched(downloaded, dir)
    ELSE LET l == Head(links)
             name == AvoidOverwrite(dir, guess_filename(l.file))
             vr == validate_content(l.file)
         IN IF ~l.ok THEN ScrapeLinks(Tail(links), source, dir, downloaded)
            ELSE IF vr.valid
            THEN ScrapeLinks(Tail(links), source, dir \cup {name},
                     Append(downloaded,
                            FileEntry(name, source, vr, FALSE, FALSE)))
            ELSE ScrapeLinks(Tail(links), source, dir, downloaded)

scrape_page_for_files(resp, source, dir) ==
    IF ~resp.bs4 THEN save_html_page(resp.file, source, dir)
    ELSE LET got == ScrapeLinks(resp.links, source, dir, <<>>)
         IN IF got.files # <<>> THEN got
            ELSE save_html_page(resp.file, source, got.dir)

\* mutant: a rejected download is left in the directory
try_download_url_KeepRejected(resp, source, dir) ==
    IF resp.kind = "error" THEN Fetched(<<>>, dir)
    ELSE IF resp.kind = "binary"
    THEN LET name == AvoidOverwrite(dir, guess_filename(resp.file))
             vr == validate_content(resp.file)
         IN IF vr.valid
            THEN Fetched(<<FileEntry(name, source, vr, FALSE, FALSE)>>,
                         dir \cup {name})
            ELSE Fetched(<<>>, dir \cup {name})
    ELSE IF resp.kind = "html"
    THEN scrape_page_for_files(resp, source, dir)
    ELSE Fetched(<<>>, dir)

try_download_url(resp, source, dir) ==
    IF resp.kind = "error" THEN Fetched(<<>>, dir)
    ELSE IF resp.kind = "binary"
    THEN LET name == AvoidOverwrite(dir, guess_filename(resp.file))
             vr == validate_content(resp.file)
         IN IF vr.valid
            THEN Fetched(<<FileEntry(name, source, vr, FALSE, FALSE)>>,
                         dir \cup {name})
            ELSE Fetched(<<>>, dir)
    ELSE IF resp.kind = "html"
    THEN scrape_page_for_files(resp, source, dir)
    ELSE Fetched(<<>>, dir)

\* mutant: only archived pages are taken, archived documents are not
WaybackFetch_PagesOnly(resp, dir) ==
    IF /\ resp.kind = "html"
       /\ check_for_junk_indicators(Content(resp.file), DOJ_INDICATORS) = {}
       /\ check_for_junk_indicators(Content(resp.file),
                                    WAYBACK_ERROR_INDICATORS) = {}
       /\ validate_content(resp.file).valid
    THEN Fetched(<<FileEntry(WaybackPageHtml, "wayback",
                             validate_content(resp.file), TRUE, FALSE)>>,
                 dir \cup {WaybackPageHtml})
    ELSE Fetched(<<>>, dir)

\* one round of the loop of try_wayback_source: the request for one URL
WaybackFetch(resp, dir) ==
    IF resp.kind \in {"error", "non200", "doj_redirect"}
    THEN Fetched(<<>>, dir)
    ELSE IF resp.kind = "binary"
    THEN LET name == guess_filename(resp.file)
             vr == validate_content(resp.file)
         IN IF vr.valid
            THEN Fetched(<<FileEntry(name, "wayback", vr, FALSE, FALSE)>>,
                         dir \cup {name})
            ELSE Fetched(<<>>, dir \ {name})
    ELSE IF resp.kind = "html"
    THEN LET content == Content(resp.file)
             vr == validate_content(resp.file)
         IN IF check_for_junk_indicators(content, DOJ_INDICATORS) # {}
            THEN Fetched(<<>>, dir)
            ELSE IF check_for_junk_indicators(content,
                                              WAYBACK_ERROR_INDICATORS) # {}
            THEN Fetched(<<>>, dir)
            ELSE IF vr.valid
            THEN Fetched(<<FileEntry(WaybackPageHtml, "wayback", vr,
                                     TRUE, FALSE)>>,
                         dir \cup {WaybackPageHtml})
            ELSE Fetched(<<>>, dir \ {WaybackPageHtml})
    ELSE Fetched(<<>>, dir)

\* ------------------------------------------------------- the links of a page

\* an <a href> of a page: the URL it resolves to, whether the extension of
\* the URL's path is one of the document extensions, whether the URL holds
\* one of the patterns of site furniture (social networks, accessibility,
\* privacy and FOIA pages), and what a GET of the URL gives.  The extensions
\* of the anchors are ones both harvesters take for a document (.pdf, .docx)
\* or ones neither does.
AnchorUrls == 1..MaxLinks

Anchors ==
    [url : AnchorUrls, listed : BOOLEAN, furniture : BOOLEAN,
     get : LinkResults]

\* the anchors of a page, in page order; a URL that occurs twice is the same
\* URL
PageAnchors ==
    {a \in UNION {[1..n -> Anchors] : n \in 0..MaxLinks} :
        \A j, l \in DOMAIN a : a[j].url = a[l].url => a[j] = a[l]}

\* the anchors scrape_page_for_files requests:
\* if ext in file_extensions and full_url not in seen_urls
RECURSIVE DocumentLinks(_, _)
DocumentLinks(anchors, seen_urls) ==
    IF anchors = <<>> THEN <<>>
    ELSE LET a == Head(anchors)
         IN IF a.listed /\ a.url \notin seen_urls
            THEN <<a>> \o DocumentLinks(Tail(anchors), seen_urls \cup {a.url})
            ELSE DocumentLinks(Tail(anchors), seen_urls)

\* the links find_downloadable_links of the first harvester returns:
\* an anchor whose URL holds one of SKIP_URL_PATTERNS is passed over
RECURSIVE find_downloadable_links(_, _)
find_downloadable_links(anchors, seen) ==
    IF anchors = <<>> THEN <<>>
    ELSE LET a == Head(anchors)
         IN IF a.furniture
            THEN find_downloadable_links(Tail(anchors), seen)
            ELSE IF a.listed /\ a.url \notin seen
            THEN <<a>> \o find_downloadable_links(Tail(anchors),
                                                  seen \cup {a.url})
            ELSE find_downloadable_links(Tail(anchors), seen)

\* the html response whose page has these anchors
PageResponse(page, anchors, bs4) ==
    [kind |-> "html", file |-> page,
     links |-> [j \in DOMAIN DocumentLinks(anchors, {}) |->
                   DocumentLinks(anchors, {})[j].get],
     bs4 |-> bs4]

\* no page has been scraped
NoScrape ==
    [page |-> NoFile, anchors |-> <<>>, bs4 |-> TRUE, source |-> "none",
     dir0 |-> {}, state |-> "none", fetched |-> <<>>, ret |-> <<>>,
     dir |-> {}, searched |-> FALSE, found |-> <<>>]

\* --------------------------------------------------------- fetch_with_retry

MAX_RETRIES == 3

\* what one session.get followed by raise_for_status can meet: an answer
\* with a status, or no answer at all
Outcomes == {"200", "403", "404", "429", "500", "503",
             "connection_error", "timeout"}

\* requests.exceptions.RequestException: raise_for_status raises HTTPError
\* for every 4xx and 5xx status; ConnectionError and Timeout are raised by
\* session.get
RaisesRequestException(o) == o # "200"

\* a fetch_with_retry call with the given retries, before its first request
FetchCall(retries) ==
    [retries |-> retries, attempt |-> 0, sent |-> <<>>, waits |-> <<>>,
     result |-> "running"]

\* no call is under way
NoFetch ==
    [retries |-> 0, attempt |-> 0, sent |-> <<>>, waits |-> <<>>,
     result |-> "no_call"]

\* ------------------------------------------------------------------- state

VARIABLES
    vfile,      \* the file handed to validate_content
    vres,       \* the ValidationResult it returned
    fetch,      \* one call of fetch_with_retry of the first harvester: its
                \*   retries argument, the loop index, what each request
                \*   met, the waits slept, and what it returned
    vlog,       \* the validate_content calls made on their own so far: the
                \*   file each was given and what it returned
    scrape,     \* one page scraped on its own: the page, its anchors, the
                \*   directory before, the URLs requested, what
                \*   scrape_page_for_files returned and the directory after;
                \*   the links the first harvester finds on the same page
    rows,       \* the inventory: per row, its URLs (1..urls) and whether
                \*   portal_map has a portal_url for it
    store,      \* per row, the metadata.json in its directory
    dirs,       \* per row, the other files of its directory
    pc,         \* where main is: "idle", "loop", or inside harvest_row at
                \*   "direct" or "wayback"
    i,          \* main's position in rows
    resume,     \* args.resume
    dry_run,    \* args.dry_run
    stats,      \* main's stats
    runs,       \* batch runs started
    metadata,   \* harvest_row's metadata
    files,      \* harvest_row's files: what the current source returned
    k,          \* the loop position of try_direct_urls / try_wayback_source
    reqs,       \* the page requests harvest_row has made for the row
    last        \* how main's latest loop round ended

vars == <<vfile, vres, vlog, fetch, scrape, rows, store, dirs, pc, i, resume, dry_run, stats, runs,
          metadata, files, k, reqs, last>>

harvestVars == <<rows, store, dirs, pc, i, resume, dry_run, stats, runs,
                 metadata, files, k, reqs, last>>

Rows == 1..NRows

RowData == [urls : 0..MaxUrls, portal : BOOLEAN]
\* a batch is run without a Master Catalog: load_portal_map returns {}
BatchRowData == [urls : 0..MaxBatchUrls, portal : {FALSE}]

Metadata(status, source_used, files_downloaded, attempts) ==
    [status |-> status, source_used |-> source_used,
     files_downloaded |-> files_downloaded, attempts |-> attempts]

\* metadata as harvest_row creates it
PendingMetadata == Metadata("pending", "None", <<>>, <<>>)
\* no metadata.json in the row directory
NoRecord == Metadata("no_file", "None", <<>>, <<>>)
\* a metadata.json that json.load cannot read
Unreadable == Metadata("unreadable", "None", <<>>, <<>>)

Attempt(source, result) == [source |-> source, result |-> result]

\* a request for a page: its source, the URL (0: the portal URL), what came
\* back (the kind of answer, whether the page had document links), whether
\* validate_content accepted an artifact it produced, whether it rejected one
Request(source, url, resp, accepted, rejected) ==
    [source |-> source, url |-> url, kind |-> resp.kind,
     linked |-> resp.links # <<>>,
     accepted |-> accepted, rejected |-> rejected]

ZeroStats ==
    [success |-> 0, failed |-> 0, no_urls |-> 0, validation_failed |-> 0,
     skipped |-> 0]

\* ------------------------------------------------------------ harvest_row

AnyValidationFailed(fs) == \E j \in DOMAIN fs : fs[j].validation_failed

\* mutant: the negation is lost
ChainAccepts_FailedOnly(fs) == fs # <<>> /\ AnyValidationFailed(fs)

\* if files and not any(f.get("validation_failed") for f in files)
ChainAccepts(fs) == fs # <<>> /\ ~AnyValidationFailed(fs)

\* "success" if files else <label>
AttemptResult(fs, label) == IF fs # <<>> THEN "success" ELSE label

\* if files: break
DirectStops(fs) == fs # <<>>

\* mutant: the source is not written into the record
Succeeded_NoSource(meta, fs, source) ==
    Metadata("success", "None", fs, meta.attempts)

Succeeded(meta, fs, source) ==
    Metadata("success", source, fs, meta.attempts)

\* mutant: a row without URLs ends failed
Exhausted_NeverNoUrls(meta, fs, urls) ==
    IF fs # <<>> /\ AnyValidationFailed(fs)
    THEN Metadata("validation_failed", fs[1].source, fs, meta.attempts)
    ELSE Metadata("failed", meta.source_used, meta.files_downloaded,
                  meta.attempts)

\* all sources exhausted: the final status
Exhausted(meta, fs, urls) ==
    IF fs # <<>> /\ AnyValidationFailed(fs)
    THEN Metadata("validation_failed", fs[1].source, fs, meta.attempts)
    ELSE IF urls > 0
    THEN Metadata("failed", meta.source_used, meta.files_downloaded,
                  meta.attempts)
    ELSE Metadata("no_urls", meta.source_used, meta.files_downloaded,
                  meta.attempts)

\* mutant: the entry replaces the log
AddAttempt_Overwrite(meta, source, result) ==
    [meta EXCEPT !.attempts = <<Attempt(source, result)>>]

AddAttempt(meta, source, result) ==
    [meta EXCEPT !.attempts = Append(@, Attempt(source, result))]

\* whether the fetcher returned an artifact that validate_content accepted
ProducedAccepted(got) ==
    \E j \in DOMAIN got.files : ~got.files[j].validation_failed

\* whether the request produced an artifact that validate_content rejected
ProducedRejected(resp, got) ==
    \/ resp.kind = "binary" /\ ~validate_content(resp.file).valid
    \/ resp.kind = "html" /\ AnyValidationFailed(got.files)
    \/ resp.kind = "html"
         /\ \E j \in DOMAIN resp.links :
               resp.links[j].ok /\ ~validate_content(resp.links[j].file).valid

InRoom(dir) == \A nm \in dir : nm.n <= MaxCounter

\* ------------------------------------------------------------------- main

\* mutant: any metadata.json that loads makes the row skipped
ResumeSkips_AnyRecord(existing) ==
    existing # NoRecord /\ existing # Unreadable

\* mutant: the status test is inverted
ResumeSkips_NotSuccess(existing) ==
    existing # NoRecord /\ existing # Unreadable /\ existing.status # "success"

\* the resume check: skip the row when its metadata.json exists, loads and
\* has status success
ResumeSkips(existing) ==
    existing # NoRecord /\ existing # Unreadable /\ existing.status = "success"

Skipped == resume /\ ResumeSkips(store[i])

\* the tallies of main after harvest_row returned
UpdateStats(st, status) ==
    IF status = "success" THEN [st EXCEPT !.success = @ + 1]
    ELSE IF status = "no_urls" THEN [st EXCEPT !.no_urls = @ + 1]
    ELSE IF status = "validation_failed"
    THEN [st EXCEPT !.validation_failed = @ + 1]
    ELSE [st EXCEPT !.failed = @ + 1]

Init ==
    /\ vfile = NoFile
    /\ vres = [valid |-> FALSE, reason |-> "not_validated"]
    /\ vlog = <<>>
    /\ fetch = NoFetch
    /\ scrape = NoScrape
    /\ rows \in [Rows -> BatchRowData]
    /\ store = [r \in Rows |-> NoRecord]
    /\ dirs = [r \in Rows |-> {}]
    /\ pc = "idle"
    /\ i = 1
    /\ resume = FALSE
    /\ dry_run = FALSE
    /\ stats = ZeroStats
    /\ runs = 0
    /\ metadata = PendingMetadata
    /\ files = <<>>
    /\ k = 1
    /\ reqs = <<>>
    /\ last = "none"

\* the process ends: what it held in memory is gone
Exit(how) ==
    /\ pc' = "idle"
    /\ i' = 1
    /\ resume' = FALSE
    /\ dry_run' = FALSE
    /\ stats' = ZeroStats
    /\ metadata' = PendingMetadata
    /\ files' = <<>>
    /\ k' = 1
    /\ reqs' = <<>>
    /\ last' = how

\* python harvest_v2.py [--resume] [--dry-run]
StartRun ==
    /\ pc = "idle"
    /\ runs < MaxRuns
    /\ \E res \in BOOLEAN, dry \in BOOLEAN :
          /\ resume' = res
          /\ dry_run' = dry
    /\ runs' = runs + 1
    /\ pc' = "loop"
    /\ i' = 1
    /\ stats' = ZeroStats
    /\ last' = "started"
    /\ UNCHANGED <<vfile, vres, vlog, fetch, scrape, rows, store, dirs, metadata, files, k, reqs>>

\* the loop round of a row the resume check skips
ResumeSkip ==
    /\ pc = "loop"
    /\ i <= NRows
    /\ Skipped
    /\ stats' = [stats EXCEPT !.skipped = @ + 1]
    /\ i' = i + 1
    /\ last' = "skipped"
    /\ UNCHANGED <<vfile, vres, vlog, fetch, scrape, rows, store, dirs, pc, resume, dry_run, runs,
                   metadata, files, k, reqs>>

\* the loop round of a row under --dry-run: harvest_row returns the pending
\* metadata and main counts it
DryRunRow ==
    /\ pc = "loop"
    /\ i <= NRows
    /\ ~Skipped
    /\ dry_run
    /\ metadata' = PendingMetadata
    /\ stats' = UpdateStats(stats, PendingMetadata.status)
    /\ i' = i + 1
    /\ files' = <<>>
    /\ reqs' = <<>>
    /\ last' = "dry"
    /\ UNCHANGED <<vfile, vres, vlog, fetch, scrape, rows, store, dirs, pc, resume, dry_run, runs,
                   k>>

\* harvest_row returns meta after save_metadata; main counts it.  When
\* save_metadata raises instead (saved = FALSE), metadata.json is as it was
\* or cut short, and main's except clause counts the row as failed.
Return(meta, dir, saved) ==
    /\ dirs' = [dirs EXCEPT ![i] = dir]
    /\ metadata' = meta
    /\ IF saved
       THEN /\ store' = [store EXCEPT ![i] = meta]
            /\ stats' = UpdateStats(stats, meta.status)
            /\ last' = "returned"
       ELSE /\ store' \in {store, [store EXCEPT ![i] = Unreadable]}
            /\ stats' = [stats EXCEPT !.failed = @ + 1]
            /\ last' = "raised"
    /\ pc' = "loop"
    /\ i' = i + 1
    /\ files' = <<>>
    /\ k' = 1

\* harvest_row up to the end of the portal step
PortalStep ==
    /\ pc = "loop"
    /\ i <= NRows
    /\ ~Skipped
    /\ ~dry_run
    /\ \E resp \in IF rows[i].portal THEN Responses
                                     ELSE {SimpleResponse("error")},
          saved \in BOOLEAN :
          \E got \in {IF rows[i].portal
                      THEN try_download_url(resp, "portal", dirs[i])
                      ELSE Fetched(<<>>, dirs[i])} :
          LET meta == AddAttempt(PendingMetadata, "portal",
                                 AttemptResult(got.files, "no_match"))
          IN /\ InRoom(got.dir)
             /\ reqs' = IF rows[i].portal
                        THEN <<Request("portal", 0, resp, ProducedAccepted(got),
                                       ProducedRejected(resp, got))>>
                        ELSE <<>>
             /\ IF ChainAccepts(got.files)
                THEN Return(Succeeded(meta, got.files, "portal"),
                            got.dir, saved)
                ELSE /\ saved
                     /\ metadata' = meta
                     /\ dirs' = [dirs EXCEPT ![i] = got.dir]
                     /\ pc' = "direct"
                     /\ k' = 1
                     /\ files' = <<>>
                     /\ last' = "harvesting"
                     /\ UNCHANGED <<store, stats, i>>
    /\ UNCHANGED <<vfile, vres, vlog, fetch, scrape, rows, resume, dry_run, runs>>

\* one round of the loop of try_direct_urls
DirectFetch ==
    /\ pc = "direct"
    /\ k <= rows[i].urls
    /\ \E resp \in Responses :
          \E got \in {try_download_url(resp, "direct", dirs[i])} :
             /\ InRoom(got.dir)
             /\ reqs' = Append(reqs,
                           Request("direct", k, resp, ProducedAccepted(got),
                                   ProducedRejected(resp, got)))
             /\ files' = files \o got.files
             /\ dirs' = [dirs EXCEPT ![i] = got.dir]
             /\ k' = IF DirectStops(got.files) THEN rows[i].urls + 1
                     ELSE k + 1
    /\ UNCHANGED <<vfile, vres, vlog, fetch, scrape, rows, store, pc, i, resume, dry_run, stats,
                   runs, metadata, last>>

\* harvest_row after try_direct_urls returned
DirectDone ==
    /\ pc = "direct"
    /\ k > rows[i].urls
    /\ \E saved \in BOOLEAN :
          LET meta == AddAttempt(metadata, "direct",
                                 AttemptResult(files, "failed"))
          IN IF ChainAccepts(files)
             THEN Return(Succeeded(meta, files, "direct"), dirs[i], saved)
             ELSE /\ saved
                  /\ metadata' = meta
                  /\ pc' = "wayback"
                  /\ k' = 1
                  /\ files' = <<>>
                  /\ UNCHANGED <<store, dirs, stats, i, last>>
    /\ UNCHANGED <<vfile, vres, vlog, fetch, scrape, rows, resume, dry_run, runs, reqs>>

\* mutant: every candidate URL is tried
WaybackRounds_NoLimit(r) == rows[r].urls

WaybackRounds(r) ==
    IF rows[r].urls < WAYBACK_URL_LIMIT THEN rows[r].urls
    ELSE WAYBACK_URL_LIMIT

\* one round of the loop of try_wayback_source
WaybackStep ==
    /\ pc = "wayback"
    /\ k <= WaybackRounds(i)
    /\ \E resp \in WaybackResponses :
          \E got \in {WaybackFetch(resp, dirs[i])} :
             /\ InRoom(got.dir)
             /\ reqs' = Append(reqs,
                           Request("wayback", k, resp, ProducedAccepted(got),
                                   resp.kind \in {"binary", "html"}
                                     /\ ~validate_content(resp.file).valid))
             /\ files' = got.files
             /\ dirs' = [dirs EXCEPT ![i] = got.dir]
             /\ k' = IF got.files # <<>> THEN WaybackRounds(i) + 1 ELSE k + 1
    /\ UNCHANGED <<vfile, vres, vlog, fetch, scrape, rows, store, pc, i, resume, dry_run, stats,
                   runs, metadata, last>>

\* harvest_row after try_wayback_source returned, to its end
WaybackDone ==
    /\ pc = "wayback"
    /\ k > WaybackRounds(i)
    /\ \E saved \in BOOLEAN :
          LET meta == AddAttempt(metadata, "wayback",
                                 AttemptResult(files, "failed"))
          IN IF ChainAccepts(files)
             THEN Return(Succeeded(meta, files, "wayback"), dirs[i], saved)
             ELSE Return(Exhausted(meta, files, rows[i].urls), dirs[i], saved)
    /\ UNCHANGED <<vfile, vres, vlog, fetch, scrape, rows, resume, dry_run, runs, reqs>>

\* mutant: the exception leaves main
UnexpectedError_Stops ==
    /\ \/ pc \in {"direct", "wayback"}
       \/ pc = "loop" /\ i <= NRows /\ ~Skipped /\ ~dry_run
    /\ Exit("raised")
    /\ UNCHANGED <<vfile, vres, vlog, fetch, scrape, rows, store, dirs, runs>>

\* an exception other than a RequestException inside harvest_row, before
\* save_metadata: main logs it, counts the row as failed and goes on
UnexpectedError ==
    /\ \/ pc \in {"direct", "wayback"}
       \/ pc = "loop" /\ i <= NRows /\ ~Skipped /\ ~dry_run
    /\ stats' = [stats EXCEPT !.failed = @ + 1]
    /\ i' = i + 1
    /\ pc' = "loop"
    /\ last' = "raised"
    /\ files' = <<>>
    /\ k' = 1
    /\ UNCHANGED <<vfile, vres, vlog, fetch, scrape, rows, store, dirs, resume, dry_run, runs,
                   metadata, reqs>>

\* the loop is over: the summary and the report
FinishRun ==
    /\ pc = "loop"
    /\ i > NRows
    /\ Exit("finished")
    /\ UNCHANGED <<vfile, vres, vlog, fetch, scrape, rows, store, dirs, runs>>

\* the run is interrupted (KeyboardInterrupt is no Exception)
Interrupt ==
    /\ pc # "idle"
    /\ Exit("interrupted")
    /\ UNCHANGED <<vfile, vres, vlog, fetch, scrape, rows, store, dirs, runs>>

Next ==
    \/ StartRun
    \/ ResumeSkip
    \/ DryRunRow
    \/ PortalStep
    \/ DirectFetch
    \/ DirectDone
    \/ WaybackStep
    \/ WaybackDone
    \/ UnexpectedError
    \/ FinishRun
    \/ Interrupt

Spec == Init /\ [][Next]_vars

\* ------------------------------------------- one batch run, left to itself

\* the records an earlier run can have left for a row with one URL, and the
\* one it leaves for a row without
DownloadedPdf ==
    FileEntry(FileName("document", 0, ".pdf"), "direct",
              validate_content(GoodPdf), FALSE, FALSE)

SuccessRecord ==
    Metadata("success", "direct", <<DownloadedPdf>>,
             <<Attempt("portal", "no_match"), Attempt("direct", "success")>>)

FailedRecord ==
    Metadata("failed", "None", <<>>,
             <<Attempt("portal", "no_match"), Attempt("direct", "failed"),
               Attempt("wayback", "failed")>>)

NoUrlsRecord ==
    Metadata("no_urls", "None", <<>>,
             <<Attempt("portal", "no_match"), Attempt("direct", "failed"),
               Attempt("wayback", "failed")>>)

EarlierRecords(row) ==
    IF row.urls > 0 THEN {NoRecord, SuccessRecord, FailedRecord}
    ELSE {NoRecord, NoUrlsRecord}

\* the last run is about to start on what earlier runs left
InitLive ==
    /\ vfile = NoFile
    /\ vres = [valid |-> FALSE, reason |-> "not_validated"]
    /\ vlog = <<>>
    /\ fetch = NoFetch
    /\ scrape = NoScrape
    /\ rows \in [Rows -> BatchRowData]
    /\ store \in [Rows -> {NoRecord, SuccessRecord, FailedRecord, NoUrlsRecord}]
    /\ \A r \in Rows : store[r] \in EarlierRecords(rows[r])
    /\ dirs = [r \in Rows |->
                 IF store[r] = SuccessRecord
                 THEN {FileName("document", 0, ".pdf")} ELSE {}]
    /\ pc = "idle"
    /\ i = 1
    /\ resume = FALSE
    /\ dry_run = FALSE
    /\ stats = ZeroStats
    /\ runs = MaxRuns - 1
    /\ metadata = PendingMetadata
    /\ files = <<>>
    /\ k = 1
    /\ reqs = <<>>
    /\ last = "none"

\* the steps of a run that nobody interrupts
NextLive ==
    \/ StartRun
    \/ ResumeSkip
    \/ DryRunRow
    \/ PortalStep
    \/ DirectFetch
    \/ DirectDone
    \/ WaybackStep
    \/ WaybackDone
    \/ UnexpectedError
    \/ FinishRun

\* main is one sequential process and every request has a timeout: a step
\* that can be taken is taken
SpecLive == InitLive /\ [][NextLive]_vars /\ WF_vars(NextLive)

\* ------------------------------------------- one harvest_row on its own

\* main is at the first row of a run without --resume and --dry-run; the
\* row directory may hold files of an earlier run
InitRow ==
    /\ vfile = NoFile
    /\ vres = [valid |-> FALSE, reason |-> "not_validated"]
    /\ vlog = <<>>
    /\ fetch = NoFetch
    /\ scrape = NoScrape
    /\ rows \in {f \in [Rows -> RowData] :
                    \A r \in Rows \ {1} : f[r] = [urls |-> 0, portal |-> FALSE]}
    /\ store = [r \in Rows |-> NoRecord]
    /\ dirs \in {f \in [Rows -> SUBSET {PageContentHtml,
                                          FileName("document", 0, ".pdf")}] :
                    \A r \in Rows \ {1} : f[r] = {}}
    /\ pc = "loop"
    /\ i = 1
    /\ resume = FALSE
    /\ dry_run = FALSE
    /\ stats = ZeroStats
    /\ runs = 1
    /\ metadata = PendingMetadata
    /\ files = <<>>
    /\ k = 1
    /\ reqs = <<>>
    /\ last = "started"

\* the steps of the loop body; the rows after the first have nothing to try
NextRow ==
    \/ PortalStep
    \/ DirectFetch
    \/ DirectDone
    \/ WaybackStep
    \/ WaybackDone
    \/ UnexpectedError

SpecRow == InitRow /\ [][NextRow]_vars

\* ---------------------------------- one harvest_row on a fresh directory

\* as InitRow, with nothing in the row directories
InitFresh ==
    /\ InitRow
    /\ dirs = [r \in Rows |-> {}]

SpecFresh == InitFresh /\ [][NextRow]_vars

\* ------------------------------------------------- the validator on its own

NotValidated == [valid |-> FALSE, reason |-> "not_validated"]

InitV ==
    /\ vfile \in Files \cup {NoFile}
    /\ vres = NotValidated
    /\ vlog = <<>>
    /\ fetch = NoFetch
    /\ scrape = NoScrape
    /\ rows = [r \in Rows |-> [urls |-> 0, portal |-> FALSE]]
    /\ store = [r \in Rows |-> NoRecord]
    /\ dirs = [r \in Rows |-> {}]
    /\ pc = "idle"
    /\ i = 1
    /\ resume = FALSE
    /\ dry_run = FALSE
    /\ stats = ZeroStats
    /\ runs = 0
    /\ metadata = PendingMetadata
    /\ files = <<>>
    /\ k = 1
    /\ reqs = <<>>
    /\ last = "none"

Validate ==
    /\ vres = NotValidated
    /\ vres' = validate_content(vfile)
    /\ vlog' = Append(vlog, [file |-> vfile, res |-> validate_content(vfile)])
    /\ UNCHANGED <<vfile, fetch, scrape, harvestVars>>

NextV == Validate

SpecV == InitV /\ [][NextV]_vars

\* ------------------------------------- fetch_with_retry of the first harvester

\* fetch_with_retry(url, session) and fetch_with_retry(alt_url, session,
\* retries=2)
InitF ==
    /\ vfile = NoFile
    /\ vres = NotValidated
    /\ vlog = <<>>
    /\ fetch \in {FetchCall(n) : n \in {2, MAX_RETRIES}}
    /\ scrape = NoScrape
    /\ rows = [r \in Rows |-> [urls |-> 0, portal |-> FALSE]]
    /\ store = [r \in Rows |-> NoRecord]
    /\ dirs = [r \in Rows |-> {}]
    /\ pc = "idle"
    /\ i = 1
    /\ resume = FALSE
    /\ dry_run = FALSE
    /\ stats = ZeroStats
    /\ runs = 0
    /\ metadata = PendingMetadata
    /\ files = <<>>
    /\ k = 1
    /\ reqs = <<>>
    /\ last = "none"

\* one round of the for loop of fetch_with_retry
FetchAttempt ==
    /\ fetch.result = "running"
    /\ fetch.attempt < fetch.retries
    /\ \E o \in Outcomes :
          fetch' =
             IF ~RaisesRequestException(o)
             THEN [fetch EXCEPT !.sent = Append(@, o), !.result = "response"]
             ELSE IF fetch.attempt < fetch.retries - 1
             THEN [fetch EXCEPT !.sent = Append(@, o),
                                !.waits = Append(@, 2 ^ (fetch.attempt + 1)),
                                !.attempt = @ + 1]
             ELSE [fetch EXCEPT !.sent = Append(@, o), !.result = "None"]
    /\ UNCHANGED <<vfile, vres, vlog, scrape, harvestVars>>

NextF == FetchAttempt

SpecF == InitF /\ [][NextF]_vars

\* ------------------------------------------ validate_content called again

\* the files of the repeated calls: short ones
RepeatFiles == {f \in Files : Len(f.body) <= MaxTokens - 2}

\* other files that are validated in between
OtherFiles == {GoodPdf, TinyPdf, GoodPage, DeniedPage}

InitD ==
    /\ vfile \in RepeatFiles
    /\ vres = NotValidated
    /\ vlog = <<>>
    /\ fetch = NoFetch
    /\ scrape = NoScrape
    /\ rows = [r \in Rows |-> [urls |-> 0, portal |-> FALSE]]
    /\ store = [r \in Rows |-> NoRecord]
    /\ dirs = [r \in Rows |-> {}]
    /\ pc = "idle"
    /\ i = 1
    /\ resume = FALSE
    /\ dry_run = FALSE
    /\ stats = ZeroStats
    /\ runs = 0
    /\ metadata = PendingMetadata
    /\ files = <<>>
    /\ k = 1
    /\ reqs = <<>>
    /\ last = "none"

\* mutant: the list of matched indicators outlives the call, so a text file
\* validated after an access-denied page is taken for one as well
ValidateAgain_StaleMatches ==
    /\ Len(vlog) < MaxValidations
    /\ \E f \in {vfile} \cup OtherFiles :
          \E res \in {IF /\ \E j \in DOMAIN vlog :
                              vlog[j].res.reason = "doj_access_denied"
                         /\ detect_file_type(f) \in {"html", "text"}
                         /\ validate_content(f).valid
                       THEN ValidationResult(FALSE, "doj_access_denied")
                       ELSE validate_content(f)} :
             /\ vlog' = Append(vlog, [file |-> f, res |-> res])
             /\ vres' = IF f = vfile THEN res ELSE vres
    /\ UNCHANGED <<vfile, fetch, scrape, harvestVars>>

\* one more call of validate_content, on the file or on another one
ValidateAgain ==
    /\ Len(vlog) < MaxValidations
    /\ \E f \in {vfile} \cup OtherFiles :
          \E res \in {validate_content(f)} :
             /\ vlog' = Append(vlog, [file |-> f, res |-> res])
             /\ vres' = IF f = vfile THEN res ELSE vres
    /\ UNCHANGED <<vfile, fetch, scrape, harvestVars>>

NextD == ValidateAgain

SpecD == InitD /\ [][NextD]_vars


\* ------------------------------------------- try_wayback_source on its own

\* harvest_row is about to call try_wayback_source for the first row: the
\* portal step found no entry and the direct step got nothing
InitW ==
    /\ vfile = NoFile
    /\ vres = NotValidated
    /\ vlog = <<>>
    /\ fetch = NoFetch
    /\ scrape = NoScrape
    /\ rows \in {[r \in Rows |-> [urls |-> IF r = 1 THEN n ELSE 0,
                                   portal |-> FALSE]] :
                    n \in 0..MaxWaybackUrls}
    /\ store = [r \in Rows |-> NoRecord]
    /\ dirs \in {f \in [Rows -> SUBSET {WaybackPageHtml,
                                          FileName("document", 0, ".pdf")}] :
                    \A r \in Rows \ {1} : f[r] = {}}
    /\ pc = "wayback"
    /\ i = 1
    /\ resume = FALSE
    /\ dry_run = FALSE
    /\ stats = ZeroStats
    /\ runs = 1
    /\ metadata = AddAttempt(AddAttempt(PendingMetadata, "portal", "no_match"),
                             "direct", "failed")
    /\ files = <<>>
    /\ k = 1
    /\ reqs = <<>>
    /\ last = "harvesting"

NextW == WaybackStep \/ WaybackDone

SpecW == InitW /\ [][NextW]_vars

\* ------------------------------------------------- a page scraped on its own

\* the pages that are scraped
ScrapedPages == {GoodPage, DeniedPage}

\* a page with its anchors has been fetched for the portal or the direct
\* step; the row directory may hold files already
InitS ==
    /\ vfile = NoFile
    /\ vres = NotValidated
    /\ vlog = <<>>
    /\ fetch = NoFetch
    /\ scrape \in
         {[NoScrape EXCEPT !.page = p, !.anchors = a, !.bs4 = b,
                           !.source = s, !.dir0 = d, !.dir = d,
                           !.state = "start"] :
             p \in ScrapedPages, a \in PageAnchors, b \in BOOLEAN,
             s \in {"portal", "direct"},
             d \in SUBSET {PageContentHtml, FileName("document", 0, ".pdf")}}
    /\ rows = [r \in Rows |-> [urls |-> 0, portal |-> FALSE]]
    /\ store = [r \in Rows |-> NoRecord]
    /\ dirs = [r \in Rows |-> {}]
    /\ pc = "idle"
    /\ i = 1
    /\ resume = FALSE
    /\ dry_run = FALSE
    /\ stats = ZeroStats
    /\ runs = 0
    /\ metadata = PendingMetadata
    /\ files = <<>>
    /\ k = 1
    /\ reqs = <<>>
    /\ last = "none"

\* scrape_page_for_files on the page: the requests it sends for the anchors
\* it keeps, what it returns and what it leaves in the directory
ScrapePage ==
    /\ scrape.state = "start"
    /\ \E got \in {scrape_page_for_files(
                      PageResponse(scrape.page, scrape.anchors, scrape.bs4),
                      scrape.source, scrape.dir0)} :
          scrape' =
             [scrape EXCEPT
                !.state = "scraped",
                !.fetched =
                    IF scrape.bs4
                    THEN [j \in DOMAIN DocumentLinks(scrape.anchors, {}) |->
                             DocumentLinks(scrape.anchors, {})[j].url]
                    ELSE <<>>,
                !.ret = got.files,
                !.dir = got.dir]
    /\ UNCHANGED <<vfile, vres, vlog, fetch, harvestVars>>

\* find_downloadable_links of the first harvester on the same page
FindLinks ==
    /\ scrape.state # "none"
    /\ ~scrape.searched
    /\ scrape' =
         [scrape EXCEPT
            !.searched = TRUE,
            !.found =
                [j \in DOMAIN find_downloadable_links(scrape.anchors, {}) |->
                    find_downloadable_links(scrape.anchors, {})[j].url]]
    /\ UNCHANGED <<vfile, vres, vlog, fetch, harvestVars>>

NextS == ScrapePage \/ FindLinks

SpecS == InitS /\ [][NextS]_vars

\* ------------------------------------------------------------- properties

\* the row harvest_row last worked on (main has moved on to the next one)
ReturnedRow == i - 1

\* harvest_row has returned and main has counted the row
Returned == last = "returned" /\ pc = "loop"

Sources == {"portal", "direct", "wayback"}

SourceRank(s) ==
    CASE s = "portal" -> 1
      [] s = "direct" -> 2
      [] s = "wayback" -> 3

\* a request of the step got an artifact that validate_content accepted
StepAccepted(s) ==
    \E j \in DOMAIN reqs : reqs[j].source = s /\ reqs[j].accepted

\* a request of some step produced an artifact that validate_content rejected
AnyRejected == \E j \in DOMAIN reqs : reqs[j].rejected

\* C1: the sources are tried in the order portal, direct, wayback; the first
\* step that yields an accepted artifact makes the status success, gives
\* source_used its name, and no later source is requested or logged (after an
\* accepted direct artifact the attempt log has no wayback entry).
C1_ChainShortCircuit ==
    Returned =>
        /\ \A a, b \in DOMAIN reqs :
              a < b => SourceRank(reqs[a].source) <= SourceRank(reqs[b].source)
        /\ \A a, b \in DOMAIN metadata.attempts :
              a < b => SourceRank(metadata.attempts[a].source)
                          < SourceRank(metadata.attempts[b].source)
        /\ \A s \in Sources :
              StepAccepted(s) =>
                  /\ metadata.status = "success"
                  /\ metadata.source_used = s
                  /\ \A j \in DOMAIN reqs :
                        SourceRank(reqs[j].source) <= SourceRank(s)
                  /\ \A j \in DOMAIN metadata.attempts :
                        SourceRank(metadata.attempts[j].source) <= SourceRank(s)

\* C1 witness: the portal page was rejected and the direct step then won
C1_Witness ==
    /\ Returned
    /\ StepAccepted("direct")
    /\ \E j \in DOMAIN reqs : reqs[j].source = "portal" /\ reqs[j].rejected
    /\ metadata.source_used = "direct"
    /\ Len(metadata.attempts) = 2

\* the row has no candidate URL and no portal map entry
NothingToTry(r) == rows[r].urls = 0 /\ ~rows[r].portal

\* C2 as stated: a row with no candidate URL and no portal entry returns
\* no_urls with an empty attempt log.
C2_NoUrlsEmptyLog ==
    Returned /\ NothingToTry(ReturnedRow) =>
        /\ metadata.status = "no_urls"
        /\ metadata.attempts = <<>>

\* C2: a row with no candidate URL and no portal entry returns no_urls
\* without any request having been made; the attempt log holds one entry per
\* source, none of them a success: portal no_match, direct failed, wayback
\* failed.
C2_NoUrlsThreeAttempts ==
    Returned /\ NothingToTry(ReturnedRow) =>
        /\ metadata.status = "no_urls"
        /\ metadata.source_used = "None"
        /\ metadata.files_downloaded = <<>>
        /\ reqs = <<>>
        /\ metadata.attempts = << Attempt("portal", "no_match"),
                                  Attempt("direct", "failed"),
                                  Attempt("wayback", "failed") >>

\* C2 witness: such a row has been harvested and persisted
C2_Witness ==
    /\ Returned
    /\ NothingToTry(ReturnedRow)
    /\ store[ReturnedRow].status = "no_urls"
    /\ Len(store[ReturnedRow].attempts) = 3

\* C3 as stated: when every source is exhausted without an accepted artifact
\* the status is validation_failed if some artifact was produced and rejected
\* at any step, and failed only if none was produced.
C3_RejectedMeansValidationFailed ==
    Returned /\ metadata.status # "success" =>
        /\ AnyRejected => metadata.status = "validation_failed"
        /\ metadata.status = "failed" => ~AnyRejected

\* the requests of the direct step, in the order they were made
DirectRequests == SelectSeq(reqs, LAMBDA q : q.source = "direct")

\* the direct step of the current row is over
DirectOver ==
    \/ pc = "wayback"
    \/ Returned /\ \E j \in DOMAIN metadata.attempts :
                      metadata.attempts[j].source = "direct"

\* the row the direct step worked on
DirectRow == IF pc = "wayback" THEN i ELSE ReturnedRow

\* C4 as stated: the direct step takes the candidate URLs in order and stops
\* only at the first one whose content the validator accepts; a URL whose
\* content was rejected does not end the iteration.
C4_DirectStopsOnlyAtAccepted ==
    DirectOver =>
        /\ \A j \in DOMAIN DirectRequests : DirectRequests[j].url = j
        /\ (\A j \in DOMAIN DirectRequests : ~DirectRequests[j].accepted)
              => Len(DirectRequests) = rows[DirectRow].urls

C6_SuccessNeverChanges ==
    [][ \A r \in Rows : store[r].status = "success" => store'[r] = store[r] ]_vars

\* C6: once a success record is persisted for a row, no step of a run in
\* resume mode changes its status, files or attempt log; a run without resume
\* harvests the row again and overwrites the record.
C6_SuccessKeptUnderResume ==
    [][ \A r \in Rows :
          resume /\ store[r].status = "success" => store'[r] = store[r] ]_vars

\* C6 witness: a resume run has passed a success record and has harvested
\* another row
C6_Witness ==
    /\ pc = "loop"
    /\ resume
    /\ runs = MaxRuns
    /\ stats.skipped >= 1
    /\ stats.skipped < i - 1
    /\ \E r \in Rows : r < i /\ store[r].status = "success"

\* C7 as stated: when harvesting a row raises an unexpected exception, a
\* record with status failed is persisted for the row, with the error in its
\* attempt history.
C7_ExceptionPersistsFailed ==
    last = "raised" /\ pc = "loop" =>
        /\ store[ReturnedRow].status = "failed"
        /\ store[ReturnedRow].attempts # <<>>

Validated == vfile # NoFile /\ vres # NotValidated

\* C8: a file of fewer than 200 bytes is rejected whatever its content and
\* extension: file_empty for 0 bytes, file_too_small for 1..199, never ok.
C8_SmallRejected ==
    Validated /\ FileSize(vfile) < 200 =>
        /\ ~vres.valid
        /\ vres.reason # "ok"
        /\ FileSize(vfile) = 0 => vres.reason = "file_empty"
        /\ FileSize(vfile) \in 1..199 => vres.reason = "file_too_small"

\* C8 witness: a file under 200 bytes that starts with the PDF signature
C8_Witness ==
    /\ Validated
    /\ FileSize(vfile) \in 1..199
    /\ vfile.head = "%PDF"
    /\ vfile.body # <<>>
    /\ vres.reason = "file_too_small"

\* C9: a file of at least 200 bytes that starts with a recognised signature
\* (PDF, zip, OLE, RTF, PNG, JPG, GIF) is ok whatever its extension and
\* whatever text it holds.
C9_SignatureOk ==
    Validated /\ FileSize(vfile) >= 200 /\ vfile.head \in SigHeads =>
        /\ vres.valid
        /\ vres.reason = "ok"

\* C9 witness: an image signature, an .html extension and an access-denied
\* phrase in the body
C9_Witness ==
    /\ Validated
    /\ vfile.head = "GIF8"
    /\ vfile.ext = ".html"
    /\ \E j \in DOMAIN vfile.body : vfile.body[j] = "Access Denied"
    /\ FileSize(vfile) >= 200
    /\ vres.valid

\* the file is markup whose raw content holds an access-denied phrase
HtmlWithDojPhrase ==
    /\ detect_file_type(vfile) = "html"
    /\ \E j \in DOMAIN Content(vfile) :
          Lower(Content(vfile)[j]) \in DOJ_INDICATORS

\* C10 as stated: markup that holds an access-denied phrase, in any letter
\* case, is rejected as doj_access_denied whatever the extension.
C10_DojAlways ==
    Validated /\ HtmlWithDojPhrase =>
        /\ ~vres.valid
        /\ vres.reason = "doj_access_denied"

\* C10: markup of at least 200 bytes that holds an access-denied phrase, in
\* any letter case, and is not named .pdf is rejected as doj_access_denied,
\* whatever other indicators match and however long the visible text is;
\* under 200 bytes the reason is file_too_small (file_empty cannot occur),
\* and with the extension .pdf it is html_masquerade.
C10_DojUnlessSmallOrPdf ==
    Validated /\ HtmlWithDojPhrase =>
        /\ ~vres.valid
        /\ vres.reason =
              IF FileSize(vfile) < MIN_FILE_SIZE THEN "file_too_small"
              ELSE IF vfile.ext = ".pdf" THEN "html_masquerade"
              ELSE "doj_access_denied"

\* C10 witness: a mixed-case phrase, a wayback indicator as well, and more
\* than 500 characters of visible text
C10_Witness ==
    /\ Validated
    /\ vfile.ext = ".html"
    /\ detect_file_type(vfile) = "html"
    /\ \E j \in DOMAIN vfile.body : vfile.body[j] = "Access Denied"
    /\ check_for_junk_indicators(Content(vfile), WAYBACK_ERROR_INDICATORS) # {}
    /\ extract_visible_text(Content(vfile)) >= MIN_TEXT_CHARS
    /\ vres.reason = "doj_access_denied"

C12_ArchivePdfScenario ==
    /\ Returned
    /\ rows[ReturnedRow] = [urls |-> 1, portal |-> FALSE]
    /\ Len(reqs) = 2
    /\ reqs[1].source = "direct" /\ reqs[1].kind = "error"
    /\ reqs[2].source = "wayback" /\ reqs[2].kind = "binary"
    /\ ~reqs[2].rejected
    => /\ metadata.status = "success"
       /\ metadata.source_used = "wayback"
       /\ Len(metadata.files_downloaded) = 1
       /\ metadata.files_downloaded[1].filename = guess_filename(GoodPdf)
       /\ metadata.files_downloaded[1].source = "wayback"
       /\ metadata.files_downloaded[1].reason = "ok"
       /\ ~metadata.files_downloaded[1].validation_failed
       /\ detect_file_type(GoodPdf) = "pdf"
       /\ guess_filename(GoodPdf) \in dirs[ReturnedRow]
       /\ store[ReturnedRow] = metadata

\* C12 witness: the scenario has run to its end
C12_Witness ==
    /\ Returned
    /\ rows[ReturnedRow] = [urls |-> 1, portal |-> FALSE]
    /\ Len(reqs) = 2
    /\ reqs[1].source = "direct" /\ reqs[1].kind = "error"
    /\ reqs[2].source = "wayback" /\ reqs[2].kind = "binary"
    /\ reqs[2].accepted
    /\ store[ReturnedRow].source_used = "wayback"

\* C13: a row without URLs whose portal URL gives a valid article page
\* without document links ends with status success and source_used portal,
\* with exactly one accepted file, the saved page, validated ok and marked
\* needs_conversion; the direct and the wayback step are not run.
C13_PortalArticleScenario ==
    /\ Returned
    /\ rows[ReturnedRow] = [urls |-> 0, portal |-> TRUE]
    /\ reqs # <<>>
    /\ reqs[1].source = "portal" /\ reqs[1].kind = "html"
    /\ ~reqs[1].linked
    /\ ~reqs[1].rejected
    => /\ metadata.status = "success"
       /\ metadata.source_used = "portal"
       /\ metadata.files_downloaded =
             << FileEntry(PageContentHtml, "portal",
                          ValidationResult(TRUE, "ok"), TRUE, FALSE) >>
       /\ metadata.attempts = << Attempt("portal", "success") >>
       /\ Len(reqs) = 1
       /\ store[ReturnedRow] = metadata

\* C13 witness: the scenario has run to its end
C13_Witness ==
    /\ Returned
    /\ rows[ReturnedRow] = [urls |-> 0, portal |-> TRUE]
    /\ Len(reqs) = 1
    /\ reqs[1].kind = "html"
    /\ ~reqs[1].linked
    /\ reqs[1].accepted
    /\ store[ReturnedRow].files_downloaded[1].needs_conversion

\* a status from 400 to 499 other than 429
ClientErrors == {"403", "404"}

\* C14 as stated: a request that fails by a connection error, a timeout or a
\* 5xx or 429 status is retried, up to a fixed number of requests and with
\* growing waits; a request that fails with another 4xx status is never
\* retried: it is made once and the call reports failure.
C14_NoRetryOnClientError ==
    fetch.result \in {"response", "None"} =>
        /\ Len(fetch.sent) <= fetch.retries
        /\ \A a, b \in DOMAIN fetch.waits :
              a < b => fetch.waits[a] < fetch.waits[b]
        /\ \A j \in DOMAIN fetch.sent :
              fetch.sent[j] \in ClientErrors =>
                  /\ j = Len(fetch.sent)
                  /\ fetch.result = "None"
        /\ fetch.result = "None" /\ fetch.sent[Len(fetch.sent)] \notin ClientErrors
              => Len(fetch.sent) = fetch.retries

\* C15 as stated: a record ends with status no_urls only if no request was
\* made for the row, to the portal, to a candidate URL or to the archive.
C15_NoUrlsBeforeAnyFetch ==
    Returned /\ metadata.status = "no_urls" => reqs = <<>>

\* C16 as stated: when a step fetched an artifact that the validator
\* rejected, the record of the row carries the failing validation outcome
\* with its reason; no rejected artifact is dropped without a trace.
C16_RejectionRecorded ==
    Returned /\ AnyRejected =>
        /\ store[ReturnedRow] = metadata
        /\ \E j \in DOMAIN metadata.files_downloaded :
              /\ metadata.files_downloaded[j].validation_failed
              /\ metadata.files_downloaded[j].reason # "ok"

\* the reason codes validate_content documents
ReasonCodes ==
    {"ok", "file_not_found", "file_empty", "file_too_small",
     "html_masquerade", "doj_access_denied", "wayback_error",
     "generic_error_page", "empty_shell", "insufficient_content"}

\* C17 as stated: every result of validate_content carries one of the ten
\* documented reason codes.
C17_ReasonEnumeration ==
    vres # NotValidated => vres.reason \in ReasonCodes

\* extensions that claim a document format
DocumentExts == {".pdf", ".docx"}

\* C18 as stated: an extension that claims a document format on content
\* detected as markup or text is rejected as html_masquerade.
C18_AnyDocumentMasquerade ==
    Validated /\ vfile.ext \in DocumentExts
              /\ detect_file_type(vfile) \in {"html", "text"}
        => ~vres.valid /\ vres.reason = "html_masquerade"

\* C18: a file is rejected as html_masquerade exactly when it has at least
\* 200 bytes, the extension .pdf and content detected as html; the decision
\* comes before the indicator and text-length checks.  Another document
\* extension, or .pdf content detected as plain text, is not checked for a
\* mismatch and goes on to the indicator and text-length checks.
C18_PdfHtmlMasquerade ==
    Validated =>
        (vres.reason = "html_masquerade"
            <=> /\ FileSize(vfile) >= MIN_FILE_SIZE
                /\ vfile.ext = ".pdf"
                /\ detect_file_type(vfile) = "html")

\* C18 witness: a .pdf that is an access-denied page with a long text
C18_Witness ==
    /\ Validated
    /\ vfile.ext = ".pdf"
    /\ vfile.head \in MarkupHeads
    /\ check_for_junk_indicators(Content(vfile), DOJ_INDICATORS) # {}
    /\ extract_visible_text(Content(vfile)) >= MIN_TEXT_CHARS
    /\ vres.reason = "html_masquerade"

\* C19 as stated: content of at least 200 bytes of no recognised signature
\* that is neither markup nor text is ok above 5000 bytes and file_too_small
\* below, and never gets to the indicator or visible-text checks.
C19_UnknownBinaryBySize ==
    Validated /\ FileSize(vfile) >= MIN_FILE_SIZE
              /\ vfile.head \in BinaryHeads
        => /\ FileSize(vfile) > UNKNOWN_BINARY_FLOOR
              => vres.valid /\ vres.reason = "ok"
           /\ FileSize(vfile) < UNKNOWN_BINARY_FLOOR
              => ~vres.valid /\ vres.reason = "file_too_small"

\* content that holds a generic error phrase and no access-denied or
\* archive-error phrase
GenericPhraseOnly ==
    /\ detect_file_type(vfile) \in {"html", "text"}
    /\ check_for_junk_indicators(Content(vfile), GENERIC_ERROR_INDICATORS) # {}
    /\ check_for_junk_indicators(Content(vfile), DOJ_INDICATORS) = {}
    /\ check_for_junk_indicators(Content(vfile), WAYBACK_ERROR_INDICATORS) = {}

\* C20 as stated: such content is rejected as generic_error_page if and only
\* if its visible text is shorter than 2000 characters, and is ok otherwise.
C20_GenericIffShort ==
    Validated /\ GenericPhraseOnly =>
        IF extract_visible_text(Content(vfile)) < GENERIC_SHORT_CHARS
        THEN ~vres.valid /\ vres.reason = "generic_error_page"
        ELSE vres.valid /\ vres.reason = "ok"

\* C20: such content of at least 200 bytes that is not html named .pdf is
\* rejected as generic_error_page if and only if its visible text is shorter
\* than 2000 characters, and is ok otherwise; under 200 bytes it is
\* file_too_small, and html named .pdf is html_masquerade.
C20_GenericIffShortUnlessSmallOrPdf ==
    Validated /\ GenericPhraseOnly =>
        vres.reason =
            IF FileSize(vfile) < MIN_FILE_SIZE THEN "file_too_small"
            ELSE IF vfile.ext = ".pdf" /\ detect_file_type(vfile) = "html"
            THEN "html_masquerade"
            ELSE IF extract_visible_text(Content(vfile)) < GENERIC_SHORT_CHARS
            THEN "generic_error_page"
            ELSE "ok"

\* C20 witness: an error phrase in a page of 2000 or more visible characters
C20_Witness ==
    /\ Validated
    /\ GenericPhraseOnly
    /\ extract_visible_text(Content(vfile)) >= GENERIC_SHORT_CHARS
    /\ vres.valid

\* markup or text of at least 200 bytes in which no indicator family matches
NoIndicatorMatches ==
    /\ FileSize(vfile) >= MIN_FILE_SIZE
    /\ detect_file_type(vfile) \in {"html", "text"}
    /\ check_for_junk_indicators(Content(vfile), DOJ_INDICATORS) = {}
    /\ check_for_junk_indicators(Content(vfile), WAYBACK_ERROR_INDICATORS) = {}
    /\ check_for_junk_indicators(Content(vfile), GENERIC_ERROR_INDICATORS) = {}

\* the result the visible text alone decides: ok from 500 characters on,
\* below that the shell reason when a shell marker is in the raw content and
\* insufficient_content otherwise
ByVisibleText ==
    IF extract_visible_text(Content(vfile)) >= MIN_TEXT_CHARS
    THEN ValidationResult(TRUE, "ok")
    ELSE IF check_for_junk_indicators(Content(vfile), SHELL_ONLY_PATTERNS) # {}
    THEN ValidationResult(FALSE, "shell_page_no_content")
    ELSE ValidationResult(FALSE, "insufficient_content")

\* C21 as stated: markup or text of at least 200 bytes in which no indicator
\* family matches is accepted if and only if its visible text has at least
\* 500 characters; below 500 it is rejected with the shell reason when a
\* shell marker is present and as insufficient_content otherwise.
C21_VisibleTextDecides ==
    Validated /\ NoIndicatorMatches => vres = ByVisibleText

\* C21: the same, for content that is not html under the extension .pdf;
\* html under the extension .pdf is rejected as html_masquerade whatever its
\* visible text.
C21_VisibleTextDecidesUnlessPdf ==
    Validated /\ NoIndicatorMatches =>
        vres = IF vfile.ext = ".pdf" /\ detect_file_type(vfile) = "html"
               THEN ValidationResult(FALSE, "html_masquerade")
               ELSE ByVisibleText

\* C21 witness: a page with a shell marker and fewer than 500 visible
\* characters was rejected with the shell reason
C21_Witness ==
    /\ Validated
    /\ NoIndicatorMatches
    /\ vfile.ext = ".html"
    /\ check_for_junk_indicators(Content(vfile), SHELL_ONLY_PATTERNS) # {}
    /\ extract_visible_text(Content(vfile)) < MIN_TEXT_CHARS
    /\ vres = ValidationResult(FALSE, "shell_page_no_content")

\* scrape_page_for_files has returned
Scraped == scrape.state = "scraped"

\* the links of the scraped page that were requested and gave a file that
\* validate_content accepts
AcceptedLinks ==
    LET Yields(a) == a.get.ok /\ validate_content(a.get.file).valid
    IN IF scrape.bs4 THEN SelectSeq(DocumentLinks(scrape.anchors, {}), Yields)
       ELSE <<>>

\* the names of the files a fetcher returned
FileNames(fs) == {fs[j].filename : j \in DOMAIN fs}

\* C22: scrape_page_for_files returns either the accepted files of the
\* page's document links and nothing else, or, when no link gave an accepted
\* file, exactly one entry for the page itself, marked needs_conversion when
\* the page is accepted and validation_failed when it is rejected; the list
\* is never empty and never mixes accepted and rejected entries, and the
\* files of rejected links are not left in the directory.
C22_ScrapeReturnsAcceptedOrPage ==
    Scraped =>
        /\ scrape.ret # <<>>
        /\ scrape.dir = scrape.dir0 \cup FileNames(scrape.ret)
        /\ IF AcceptedLinks # <<>>
           THEN /\ Len(scrape.ret) = Len(AcceptedLinks)
                /\ \A j \in DOMAIN scrape.ret :
                      /\ ~scrape.ret[j].validation_failed
                      /\ ~scrape.ret[j].needs_conversion
                      /\ scrape.ret[j].reason = "ok"
                      /\ scrape.ret[j].filename.stem = "document"
                      /\ scrape.ret[j].filename.ext
                            = AcceptedLinks[j].get.file.ext
                      /\ scrape.ret[j].source = scrape.source
           ELSE /\ Len(scrape.ret) = 1
                /\ scrape.ret[1].filename = PageContentHtml
                /\ scrape.ret[1].source = scrape.source
                /\ scrape.ret[1].reason = validate_content(scrape.page).reason
                /\ scrape.ret[1].needs_conversion
                      = validate_content(scrape.page).valid
                /\ scrape.ret[1].validation_failed
                      = ~validate_content(scrape.page).valid

\* C22 witness: a page with two document links, one whose file is rejected
\* and one whose file is accepted, was scraped
C22_Witness ==
    /\ Scraped
    /\ Len(scrape.fetched) = 2
    /\ Len(AcceptedLinks) = 1
    /\ \E j \in DOMAIN scrape.anchors :
          /\ scrape.anchors[j].listed
          /\ scrape.anchors[j].get.ok
          /\ ~validate_content(scrape.anchors[j].get.file).valid
    /\ Len(scrape.ret) = 1

\* C23 as stated: scraping a page never requests a link whose URL matches the
\* patterns of site furniture, whatever its extension.
C23_NoFurnitureFetched ==
    Scraped =>
        \A j \in DOMAIN scrape.fetched :
           \A l \in DOMAIN scrape.anchors :
              scrape.anchors[l].url = scrape.fetched[j]
                 => ~scrape.anchors[l].furniture

\* the requests of the archive step for the row
WaybackRequests ==
    LET IsWayback(q) == q.source = "wayback"
    IN SelectSeq(reqs, IsWayback)

\* C24: the archive step sends requests for at most the first three
\* candidate URLs of the row, in the order given, none after one that gave
\* an accepted artifact, and none when the row has no candidate URL.
C24_WaybackFirstThree ==
    pc = "wayback" \/ (pc = "loop" /\ i = 2) =>
        /\ Len(WaybackRequests) <= WAYBACK_URL_LIMIT
        /\ Len(WaybackRequests) <= rows[1].urls
        /\ \A j \in DOMAIN WaybackRequests :
              /\ WaybackRequests[j].url = j
              /\ j < Len(WaybackRequests) => ~WaybackRequests[j].accepted

\* C24 witness: a row with four candidate URLs went through the archive step
\* without an accepted artifact, after three requests
C24_Witness ==
    /\ pc = "loop" /\ i = 2
    /\ rows[1].urls = 4
    /\ Len(WaybackRequests) = 3
    /\ \A j \in DOMAIN WaybackRequests : ~WaybackRequests[j].accepted
    /\ store[1].status = "failed"

\* C25 as stated: when the first run over an empty store is interrupted
\* inside harvest_row, the row it was at has neither a record nor artifact
\* files in the store, and no stored record has the status pending.
C25_InterruptLeavesNothing ==
    [][ (runs = 1 /\ pc \in {"direct", "wayback"} /\ last' = "interrupted")
            => /\ store'[i] = NoRecord
               /\ dirs'[i] = {}
               /\ \A r \in Rows : store'[r].status # "pending" ]_vars

\* the order of the chain
Chain == <<"portal", "direct", "wayback">>

\* the sources of an attempt log are the first ones of the chain, in order
ChainPrefix(attempts) ==
    /\ Len(attempts) <= Len(Chain)
    /\ \A j \in DOMAIN attempts : attempts[j].source = Chain[j]

\* s is t or t with entries cut off its end
IsPrefix(s, t) == Len(s) <= Len(t) /\ SubSeq(t, 1, Len(s)) = s

\* a step inside harvest_row leaves the entries of the log in place
AttemptsKept ==
    pc \in {"direct", "wayback"}
        => IsPrefix(metadata.attempts, metadata'.attempts)

\* C26: the attempt log of a row only grows while harvest_row runs, its
\* sources are always the first ones of portal, direct, wayback in this order
\* with each at most once, and a record with status failed or
\* validation_failed is produced only with all three in its log.
C26_AttemptLogAppendOnly ==
    /\ [](/\ ChainPrefix(metadata.attempts)
          /\ \A r \in Rows :
                /\ ChainPrefix(store[r].attempts)
                /\ store[r].status \in {"failed", "validation_failed"}
                      => Len(store[r].attempts) = Len(Chain))
    /\ [][AttemptsKept]_vars

\* C26 witness: a row ended failed with three attempts in its log
C26_Witness ==
    /\ Returned
    /\ metadata.status = "failed"
    /\ Len(metadata.attempts) = 3
    /\ store[ReturnedRow] = metadata

\* a step in which an exception ends a row's harvest_row goes on to the next
\* row of the run
RaisedGoesOn ==
    (pc # "idle" /\ last' = "raised") => (pc' = "loop" /\ i' = i + 1)

\* the run goes through the rows one by one, in their order
RowsInOrder ==
    (pc # "idle" /\ pc' # "idle") => i' \in {i, i + 1}

\* C27: in a batch run, an exception inside harvest_row does not stop the
\* batch: main goes on to the next row, takes the remaining rows in their
\* order (harvesting or skipping each), and the run ends after the last row.
C27_ExceptionNeverStopsBatch ==
    /\ [][RaisedGoesOn]_vars
    /\ [][RowsInOrder]_vars
    /\ [][last' = "finished" /\ last # "finished" => i = NRows + 1]_vars
    /\ (last = "raised") ~> (last = "finished")

\* C27 witness: the first row raised, and the run has harvested the rows
\* after it
C27_Witness ==
    /\ pc = "loop"
    /\ i = NRows + 1
    /\ stats.failed >= 1
    /\ store[1] = NoRecord
    /\ last = "returned"

SuccessEntries(attempts) ==
    {j \in DOMAIN attempts : attempts[j].result = "success"}

\* C29 as stated: in a record, an attempt has result "success" only when the
\* step's artifacts were accepted: at most one entry has it, that entry is
\* the last one and its source is source_used, and a record whose status is
\* not success has none.
C29_SuccessEntryMeansAccepted ==
    Returned =>
        /\ SuccessEntries(metadata.attempts) \subseteq
              {Len(metadata.attempts)}
        /\ \A j \in SuccessEntries(metadata.attempts) :
              metadata.attempts[j].source = metadata.source_used
        /\ metadata.status # "success"
              => SuccessEntries(metadata.attempts) = {}

\* a step of a fetcher adds to the row directory only files it returns, or
\* the page_content.html of the portal and direct steps
FetcherCleansUp ==
    (pc' \in {"direct", "wayback"} /\ i' = i) =>
        /\ dirs'[i] \ dirs[i] \subseteq FileNames(files') \cup {PageContentHtml}
        /\ pc = "wayback" => dirs'[i] \ dirs[i] \subseteq FileNames(files')

\* the page of a portal or direct request was rejected and kept
RejectedPageKept ==
    \E j \in DOMAIN reqs :
        /\ reqs[j].source \in {"portal", "direct"}
        /\ reqs[j].kind = "html"
        /\ ~reqs[j].accepted

\* C30: a downloaded document, a file scraped from a link and an archived
\* page that validate_content rejects are gone from the row directory when
\* their fetcher returns; after harvest_row returned on a fresh directory,
\* the only file the directory can hold that files_downloaded does not list
\* is a rejected page_content.html.
C30_OnlyRejectedPageLeft ==
    /\ [][FetcherCleansUp]_vars
    /\ [](Returned =>
            /\ dirs[ReturnedRow] \ FileNames(metadata.files_downloaded)
                  \subseteq {PageContentHtml}
            /\ PageContentHtml \in dirs[ReturnedRow]
                                     \ FileNames(metadata.files_downloaded)
                  => RejectedPageKept)

\* C30 witness: the portal page was rejected and kept, a download of the
\* direct step and a capture of the archive step were rejected, and the row
\* directory holds the page alone
C30_Witness ==
    /\ Returned
    /\ RejectedPageKept
    /\ \E j \in DOMAIN reqs :
          reqs[j].source = "direct" /\ reqs[j].kind = "binary"
             /\ reqs[j].rejected
    /\ \E j \in DOMAIN reqs :
          reqs[j].source = "wayback" /\ reqs[j].kind = "html"
             /\ reqs[j].rejected
    /\ dirs[ReturnedRow] = {PageContentHtml}
    /\ metadata.files_downloaded = <<>>

====
